---- MODULE Spec2Model ----
(***************************************************************************)
(* Cellular-Control.cpp: the supervisory loop of a cellular pump           *)
(* controller.  One action per loop() case, per cloud callback, per timer  *)
(* or interrupt handler; the FRAM is modelled byte by byte because         *)
(* fram.put / fram.get move sizeof(T) bytes of the argument's C++ type.    *)
(* Time is the epoch second `now`; millis() is derived from the boot time. *)
(***************************************************************************)
EXTENDS Integers, Sequences, FiniteSets, TLC

VARIABLES
  state, oldState,            \* State state / oldState
  fram,                       \* the FRAM bytes 0x00 .. 0x0C
  resetCount,                 \* int resetCount
  controlRegister,            \* byte controlRegister
  verboseMode,                \* bool verboseMode
  dailyPumpingMins,           \* int dailyPumpingMins
  pumpingStart,               \* time_t pumpingStart
  alertValue,                 \* byte alertValue
  pumpAmps,                   \* int pumpAmps
  stateOfCharge,              \* int stateOfCharge
  dataInFlight,               \* bool dataInFlight
  webhookTimeStamp,           \* unsigned long webhookTimeStamp (ms)
  resetTimeStamp,             \* unsigned long resetTimeStamp (ms)
  currentHourlyPeriod,        \* byte currentHourlyPeriod
  pumpingEnabled,             \* bool pumpingEnabled
  pumpControlPin,             \* the level of output pin A4
  timerActive, timerStart,    \* pumpBackupTimer: running?, millis() at start()
  watchdogFlag,               \* volatile bool watchdogFlag
  lastSample,                 \* meterSampleRate's static lastSample (ms)
  lastPublish,                \* meterParticlePublish's static lastPublish (ms)
  connected,                  \* Particle.connected()
  now,                        \* Time.now(), epoch seconds
  bootTime,                   \* epoch second of the last boot (millis() = 0)
  bootCause,                  \* what caused the last boot
  pc,                         \* position of the loop thread
  pending,                    \* a webhook response is on its way to the device
  op,                         \* the operation that took the last step
  arg,                        \* that operation's input
  pubs,                       \* the events that operation published
  faultTime,                  \* millis() when ERROR_STATE was last entered
  ackedOk,                    \* a 200/201 response arrived for the last event sent
  openedAt,                   \* Time.now() when the last pumping session was opened
  grantAt,                    \* Time.now() of the last grant of each rate gate
  calls                       \* cloud-function calls and faults of the environment so far

vars == <<state, oldState, fram, resetCount, controlRegister, verboseMode,
          dailyPumpingMins, pumpingStart, alertValue, pumpAmps, stateOfCharge,
          dataInFlight, webhookTimeStamp, resetTimeStamp, currentHourlyPeriod,
          pumpingEnabled, pumpControlPin, timerActive, timerStart, watchdogFlag,
          lastSample, lastPublish, connected, now, bootTime, bootCause, pc, pending,
          op, arg, pubs, faultTime, ackedOk, openedAt, grantAt,
          calls>>

\* the RAM of the sketch: everything a reboot re-initialises
ram == <<state, oldState, resetCount, controlRegister, verboseMode,
         dailyPumpingMins, pumpingStart, alertValue, pumpAmps, stateOfCharge,
         dataInFlight, webhookTimeStamp, resetTimeStamp, currentHourlyPeriod,
         pumpingEnabled, pumpControlPin, timerActive, timerStart, watchdogFlag,
         lastSample, lastPublish>>

-----------------------------------------------------------------------------
(* Bounds of the model *)

Grain == 15            \* seconds in one small step of the clock
MaxFine == 5           \* small steps of the clock past the hour in SpecExchange
PumpFine == 2          \* small steps of the clock past the hour in SpecPump
AllFine == 2           \* small steps of the clock past the hour in Spec
GateFine == 2          \* small steps of the clock past the hour in SpecGates
GateSeconds == 4       \* seconds the clock may advance one by one after a small step
SampleFine == 2         \* small steps of the clock past the hour in SpecSampling
WatchdogFine == 3      \* small steps of the clock past the hour in SpecWatchdog
SessionFine == 3       \* small steps of the clock past the hour in SpecSession
MaxHours == 1          \* whole hours the clock may advance
MaxCalls == 2          \* cloud-function calls and faults of the environment in one run

StartTime == 24 * 3600 - 30                  \* the first boot, 23:59:30

SoCValues == {30, 31}                \* batteryMonitor.getSoC() readings
RawSamples == {0, 128, 256}                  \* analogRead(pumpCurrentPin)
\* <<controlPowerPin, lowLevelPin, PG_STAT power good>>
SensePatterns == {<<TRUE, TRUE, TRUE>>, <<FALSE, TRUE, TRUE>>}
\* resetCount bytes the FRAM may hold at the first boot of a run
InitResetCounts == {0, 3}
\* Strings are sequences of character codes: a digit is itself and 10 is a
\* character that is no digit; NoData stands for the null pointer.
Commands == {<<1>>, <<0>>, <<2>>}            \* arguments of the cloud functions
NoData == <<11>>
Payloads == {NoData, <<2, 0, 0>>, <<2, 0, 1>>, <<4, 0, 4>>, <<2, 0, 0, 10>>}
PumpEvents == {<<1>>, <<0>>, <<2>>}  \* bodies of the pump channel's events

-----------------------------------------------------------------------------
(* Program constants *)

INITIALIZATION_STATE == "Initialize"
ERROR_STATE == "Error"
IDLE_STATE == "Idle"
PUMPING_STATE == "Pumping"
LOW_BATTERY_STATE == "Low Battery"
REPORTING_STATE == "Reporting"
RESP_WAIT_STATE == "Response Wait"

versionAddr == 0
controlRegisterAddr == 1
resetCountAddr == 2
dailyPumpingMinsAddr == 3
pumpingStartAddr == 5
lastHookResponseAddr == 9
FramAddrs == 0 .. (lastHookResponseAddr + 3)

webhookWait == 45000
resetWait == 30000
sampleFrequency == 2000
publishInterval == 1000
lowBattLimit == 30
pumpBackupPeriod == 3600000
softResetCeiling == 3
staleAckSeconds == 7200

-----------------------------------------------------------------------------
(* The clock *)

millis == (now - bootTime) * 1000
TimeHour(t) == (t \div 3600) % 24
TimeMinute(t) == (t \div 60) % 60

-----------------------------------------------------------------------------
(* 32-bit little-endian values in the FRAM *)

Int32Bytes(v) ==
  IF v >= 0
  THEN [i \in 0..3 |-> (v \div (256 ^ i)) % 256]
  ELSE LET w == (v + 2147483647) + 1
       IN  [i \in 0..3 |-> IF i = 3 THEN ((w \div (256 ^ 3)) % 256) + 128
                                    ELSE (w \div (256 ^ i)) % 256]

BytesInt32(b0, b1, b2, b3) ==
  LET lo == b0 + 256 * b1 + 65536 * b2
  IN  IF b3 < 128 THEN lo + 16777216 * b3
      ELSE ((lo + 16777216 * (b3 - 128)) - 2147483647) - 1

\* fram.put(addr, t) for a one-byte t (byte)
FramPut8(f, addr, v) == [f EXCEPT ![addr] = v % 256]
\* fram.put(addr, t) for a four-byte t (int, time_t, an int-promoted expression)
FramPut32(f, addr, v) ==
  [a \in DOMAIN f |-> IF a \in addr .. (addr + 3) THEN Int32Bytes(v)[a - addr] ELSE f[a]]
\* fram.get(addr, t) for a one-byte / four-byte t
FramGet8(f, addr) == f[addr]
FramGet32(f, addr) == BytesInt32(f[addr], f[addr + 1], f[addr + 2], f[addr + 3])
\* fram.erase()
FramErased == [a \in FramAddrs |-> 0]

\* bit tests on a byte
BitSet(v, mask) == (v \div mask) % 2 = 1
WithBit(v, mask) == IF BitSet(v, mask) THEN v ELSE v + mask
WithoutBit(v, mask) == IF BitSet(v, mask) THEN v - mask ELSE v

-----------------------------------------------------------------------------
(* Pure helpers of the sketch *)

\* map(value, fromLow, fromHigh, toLow, toHigh) of the Wiring API, integer arithmetic
Map(x, inMin, inMax, outMin, outMax) ==
  ((x - inMin) * (outMax - outMin)) \div (inMax - inMin) + outMin

\* int(difftime(stop, start) / 60): division truncating towards zero
TruncDiv(a, b) == IF a >= 0 THEN a \div b ELSE -((-a) \div b)

\* resetCount++ on a 32-bit int
Inc32(v) == IF v = 2147483647 THEN (-2147483647) - 1 ELSE v + 1

\* atoi / strtol(..., 10): the value of the leading digits, 0 when there are none
RECURSIVE AtoiFrom(_, _, _)
AtoiFrom(s, i, acc) ==
  IF i > Len(s) \/ s[i] > 9 THEN acc ELSE AtoiFrom(s, i + 1, acc * 10 + s[i])
Atoi(s) == AtoiFrom(s, 1, 0)

\* System.resetReason() after each cause of a boot
ResetReason(cause) ==
  CASE cause = "PinReset" -> "RESET_REASON_PIN_RESET"
    [] cause = "SoftReset" -> "RESET_REASON_USER"
    [] cause \in {"Sleep", "ModemReset"} -> "RESET_REASON_POWER_MANAGEMENT"
    [] OTHER -> "RESET_REASON_POWER_DOWN"

\* meterSampleRate(): the test of the gate
SampleGateOpen == millis - lastSample >= sampleFrequency

\* meterParticlePublish(): the test of the gate
PublishGateOpen == millis - lastPublish >= publishInterval

\* the three assignments to state of the IDLE_STATE case, in program order
IdleNextState(hourDiffers, lowBattery, pumpOn) ==
  LET s1 == IF hourDiffers THEN REPORTING_STATE ELSE IDLE_STATE
      s2 == IF lowBattery THEN LOW_BATTERY_STATE ELSE s1
      s3 == IF pumpOn THEN PUMPING_STATE ELSE s2
  IN  s3

\* the branch of the RESP_WAIT_STATE case with its two tests in the other order
RespWaitNextTimeoutFirst(inFlight, elapsed) ==
  IF elapsed >= webhookWait THEN ERROR_STATE
  ELSE IF ~inFlight THEN IDLE_STATE
  ELSE RESP_WAIT_STATE

\* the branch of the RESP_WAIT_STATE case
RespWaitNext(inFlight, elapsed) ==
  IF ~inFlight THEN IDLE_STATE
  ELSE IF elapsed >= webhookWait THEN ERROR_STATE
  ELSE RESP_WAIT_STATE

\* the gate of the ERROR_STATE case
QuietPeriodOver(elapsed) == elapsed >= resetWait

\* Time.now() - lastWebHookResponse > 7200L, an unsigned 32-bit comparison:
\* a response time after `t` wraps to a large difference
AckIsStale(t, lastWebHookResponse) ==
  LET d == t - lastWebHookResponse
  IN  IF d < 0 THEN TRUE ELSE d > staleAckSeconds

\* the tiers with `resetCount < 3` for the first test
RecoveryTierStrict(rc, t, lastWebHookResponse) ==
  IF rc < softResetCeiling THEN "SoftReset"
  ELSE IF AckIsStale(t, lastWebHookResponse) THEN "PowerCycle"
  ELSE "ModemReset"

\* the tier the ERROR_STATE case takes
RecoveryTier(rc, t, lastWebHookResponse) ==
  IF rc <= softResetCeiling THEN "SoftReset"
  ELSE IF AckIsStale(t, lastWebHookResponse) THEN "PowerCycle"
  ELSE "ModemReset"

\* the test on the response code without its second disjunct
AckAcceptedOnly200(responseCode) == responseCode = 200

\* the test of UbidotsHandler on the response code
AckAccepted(responseCode) == responseCode = 200 \/ responseCode = 201

\* the test on pumpAmps with strict comparisons
SignificantChangeAboveTwo(amps, lastPumpAmps) ==
  amps > lastPumpAmps + 2 \/ amps < lastPumpAmps - 2

\* the test on pumpAmps in takeMeasurements
SignificantChange(amps, lastPumpAmps) ==
  amps >= lastPumpAmps + 2 \/ amps <= lastPumpAmps - 2

\* takeMeasurements(): the values it leaves, from the readings it takes
takeMeasurements(soc, sense, raw) ==
  LET cr == FramGet8(fram, controlRegisterAddr)
      sessionOpen == BitSet(cr, 2)
      opening == pumpingEnabled /\ ~sessionOpen
      closing == ~pumpingEnabled /\ sessionOpen
      alert == (IF ~sense[1] THEN 1 ELSE 0) + (IF ~sense[2] THEN 2 ELSE 0)
               + (IF pumpingEnabled THEN 4 ELSE 0) + (IF ~sense[3] THEN 128 ELSE 0)
      amps == IF pumpingEnabled THEN Map(raw, 0, 4095, 0, 32)
              ELSE IF sessionOpen THEN pumpAmps ELSE 0
      mins == IF closing
              THEN dailyPumpingMins + TruncDiv(now - pumpingStart, 60)
              ELSE dailyPumpingMins
      f == IF opening
           THEN FramPut32(FramPut32(fram, pumpingStartAddr, now),
                          controlRegisterAddr, WithBit(cr, 2))
           ELSE IF closing
           THEN FramPut32(FramPut32(fram, controlRegisterAddr, WithoutBit(cr, 2)),
                          dailyPumpingMinsAddr, mins)
           ELSE fram
  IN  [controlRegister |-> cr, alertValue |-> alert, stateOfCharge |-> soc,
       pumpAmps |-> amps, pumpingStart |-> IF opening THEN now ELSE pumpingStart,
       dailyPumpingMins |-> mins, fram |-> f,
       report |-> (alert # alertValue
                   \/ (pumpingEnabled /\ SignificantChange(amps, pumpAmps)))]

\* the guard of publishStateTransition() without its test of oldState
NoticeDueEveryTick == verboseMode

\* publishStateTransition() under its guard verboseMode && state != oldState
NoticeDue == verboseMode /\ state # oldState
Notice == IF NoticeDue /\ connected /\ state # IDLE_STATE
          THEN <<"State Transition">> ELSE << >>
NoteTransition == oldState' = IF NoticeDue THEN state ELSE oldState

\* the record of a step: the operation, its input, what it published, the
\* time at which a sampling run opened a pumping session, and the times of
\* the last grants of the publish gate and of the sample gate
Did(o, a, p) ==
  /\ op' = o /\ arg' = a /\ pubs' = p
  /\ openedAt' = IF /\ o = "loop_IDLE" /\ a = <<1>>
                    /\ pumpingEnabled
                    /\ ~BitSet(FramGet8(fram, controlRegisterAddr), 2)
                 THEN now ELSE openedAt
  /\ grantAt' = [publish |-> IF p # << >> \/ (o = "meterParticlePublish" /\ a = <<1>>)
                             THEN now ELSE grantAt.publish,
                 sample |-> IF o = "loop_IDLE" /\ a = <<1>>
                            THEN now ELSE grantAt.sample]

\* the record of a step of a handler that waits on the publish gate before
\* each of its publishes; the waits are shorter than a step of the clock
DidGated(o, a, p) ==
  /\ Did(o, a, p)
  /\ lastPublish' = IF p # << >> THEN millis ELSE lastPublish

-----------------------------------------------------------------------------
(* Boot *)

\* the static initialisers of the globals
RamInit ==
  /\ state' = INITIALIZATION_STATE /\ oldState' = INITIALIZATION_STATE
  /\ resetCount' = 0 /\ controlRegister' = 0 /\ verboseMode' = FALSE
  /\ dailyPumpingMins' = 0 /\ pumpingStart' = 0
  /\ alertValue' = 0 /\ pumpAmps' = 0 /\ stateOfCharge' = 0
  /\ dataInFlight' = FALSE /\ webhookTimeStamp' = 0 /\ resetTimeStamp' = 0
  /\ currentHourlyPeriod' = 0
  /\ pumpingEnabled' = FALSE /\ pumpControlPin' = FALSE
  /\ timerActive' = FALSE /\ timerStart' = 0
  /\ watchdogFlag' = FALSE /\ lastSample' = 0 /\ lastPublish' = 0

\* the device restarts at time t with the FRAM holding f
Reboot(cause, f, t) ==
  /\ RamInit
  /\ fram' = f
  /\ now' = t /\ bootTime' = t
  /\ bootCause' = cause
  /\ connected' = FALSE /\ pending' = FALSE /\ pc' = "loop"
  /\ faultTime' = 0 /\ ackedOk' = FALSE

\* a call of a cloud function, or a fault of the environment, within the budget
Budgeted == calls < MaxCalls /\ calls' = calls + 1

Init ==
  /\ state = INITIALIZATION_STATE /\ oldState = INITIALIZATION_STATE
  /\ resetCount = 0 /\ controlRegister = 0 /\ verboseMode = FALSE
  /\ dailyPumpingMins = 0 /\ pumpingStart = 0
  /\ alertValue = 0 /\ pumpAmps = 0 /\ stateOfCharge = 0
  /\ dataInFlight = FALSE /\ webhookTimeStamp = 0 /\ resetTimeStamp = 0
  /\ currentHourlyPeriod = 0
  /\ pumpingEnabled = FALSE /\ pumpControlPin = FALSE
  /\ timerActive = FALSE /\ timerStart = 0
  /\ watchdogFlag = FALSE /\ lastSample = 0 /\ lastPublish = 0
  /\ \E rc \in InitResetCounts : fram = FramPut8(FramErased, resetCountAddr, rc)
  /\ now = StartTime /\ bootTime = StartTime
  /\ bootCause = "PowerOn"
  /\ connected = FALSE /\ pending = FALSE /\ pc = "loop"
  /\ op = "boot" /\ arg = << >> /\ pubs = << >>
  /\ faultTime = 0 /\ ackedOk = FALSE /\ openedAt = 0
  /\ grantAt = [publish |-> 0, sample |-> 0] /\ calls = 0

\* setup(): soc is the fuel-gauge reading, ok the result of connectToParticle()
Setup(soc, ok) ==
  /\ state = INITIALIZATION_STATE /\ pc = "loop"
  /\ LET rc0 == FramGet32(fram, resetCountAddr)
         pin == ResetReason(bootCause) = "RESET_REASON_PIN_RESET"
         rc1 == IF pin THEN Inc32(rc0) ELSE rc0
         f1 == IF pin THEN FramPut32(fram, resetCountAddr, rc1) ELSE fram
         cr == FramGet8(f1, controlRegisterAddr)
     IN  /\ resetCount' = rc1
         /\ fram' = f1
         /\ controlRegister' = cr
         /\ verboseMode' = BitSet(cr, 8)
         /\ dailyPumpingMins' = FramGet32(f1, dailyPumpingMinsAddr)
         /\ pumpingStart' = IF BitSet(cr, 2) THEN FramGet32(f1, pumpingStartAddr)
                            ELSE pumpingStart
  /\ stateOfCharge' = soc
  /\ connected' = IF soc > lowBattLimit THEN ok ELSE connected
  /\ timerActive' = FALSE
  /\ state' = IF state # ERROR_STATE THEN IDLE_STATE ELSE state
  /\ Did("setup", << >>, << >>)
  /\ UNCHANGED <<oldState, alertValue, pumpAmps, dataInFlight, webhookTimeStamp,
                 resetTimeStamp, currentHourlyPeriod, pumpingEnabled, pumpControlPin,
                 timerStart, watchdogFlag, lastSample, lastPublish, now, bootTime, bootCause, pc,
                 pending, faultTime, ackedOk, calls>>

-----------------------------------------------------------------------------
(* loop() *)

\* case IDLE_STATE; the readings are those takeMeasurements() takes when the
\* sample gate fires
IdleTick(soc, sense, raw) ==
  /\ state = IDLE_STATE /\ pc = "loop"
  /\ LET fire == SampleGateOpen
         m == takeMeasurements(soc, sense, raw)
         s3 == IdleNextState(TimeHour(now) # currentHourlyPeriod,
                             stateOfCharge <= lowBattLimit,
                             pumpingEnabled \/ pumpControlPin)
     IN  /\ watchdogFlag' = FALSE
         /\ NoteTransition
         /\ IF fire
            THEN /\ lastSample' = millis
                 /\ controlRegister' = m.controlRegister
                 /\ alertValue' = m.alertValue
                 /\ stateOfCharge' = m.stateOfCharge
                 /\ pumpAmps' = m.pumpAmps
                 /\ pumpingStart' = m.pumpingStart
                 /\ dailyPumpingMins' = m.dailyPumpingMins
                 /\ fram' = m.fram
                 /\ state' = IF m.report THEN REPORTING_STATE ELSE s3
            ELSE /\ soc = stateOfCharge /\ sense = <<TRUE, TRUE, TRUE>> /\ raw = 0
                 /\ state' = s3
                 /\ UNCHANGED <<lastSample, controlRegister, alertValue, stateOfCharge,
                                pumpAmps, pumpingStart, dailyPumpingMins, fram>>
         /\ Did("loop_IDLE", IF fire THEN <<1>> ELSE <<0>>, << >>)
  /\ UNCHANGED <<lastPublish, resetCount, verboseMode, dataInFlight, webhookTimeStamp,
                 resetTimeStamp, currentHourlyPeriod, pumpingEnabled, pumpControlPin,
                 timerActive, timerStart, connected, now, bootTime, bootCause, pc,
                 pending, faultTime, ackedOk, calls>>

\* case PUMPING_STATE driving the output by level: the timer is restarted on
\* every tick that finds the pump requested on
PumpingTickByLevel ==
  /\ state = PUMPING_STATE /\ pc = "loop"
  /\ NoteTransition
  /\ IF pumpingEnabled
     THEN pumpControlPin' = TRUE /\ timerActive' = TRUE /\ timerStart' = millis
     ELSE IF ~pumpingEnabled /\ pumpControlPin
     THEN pumpControlPin' = FALSE /\ timerActive' = FALSE /\ UNCHANGED timerStart
     ELSE UNCHANGED <<pumpControlPin, timerActive, timerStart>>
  /\ state' = IDLE_STATE
  /\ DidGated("loop_PUMPING", << >>, Notice)
  /\ UNCHANGED <<fram, resetCount, controlRegister, verboseMode, dailyPumpingMins,
                 pumpingStart, alertValue, pumpAmps, stateOfCharge, dataInFlight,
                 webhookTimeStamp, resetTimeStamp, currentHourlyPeriod, pumpingEnabled,
                 watchdogFlag, lastSample, connected, now, bootTime, bootCause, pc,
                 pending, faultTime, ackedOk, calls>>

\* case PUMPING_STATE
PumpingTick ==
  /\ state = PUMPING_STATE /\ pc = "loop"
  /\ NoteTransition
  /\ IF pumpingEnabled /\ ~pumpControlPin
     THEN pumpControlPin' = TRUE /\ timerActive' = TRUE /\ timerStart' = millis
     ELSE IF ~pumpingEnabled /\ pumpControlPin
     THEN pumpControlPin' = FALSE /\ timerActive' = FALSE /\ UNCHANGED timerStart
     ELSE UNCHANGED <<pumpControlPin, timerActive, timerStart>>
  /\ state' = IDLE_STATE
  /\ DidGated("loop_PUMPING", << >>, Notice)
  /\ UNCHANGED <<fram, resetCount, controlRegister, verboseMode, dailyPumpingMins,
                 pumpingStart, alertValue, pumpAmps, stateOfCharge, dataInFlight,
                 webhookTimeStamp, resetTimeStamp, currentHourlyPeriod, pumpingEnabled,
                 watchdogFlag, lastSample, connected, now, bootTime, bootCause, pc,
                 pending, faultTime, ackedOk, calls>>

\* case LOW_BATTERY_STATE: the deep sleep ends in a restart at the hour
LowBatteryTick ==
  /\ state = LOW_BATTERY_STATE /\ pc = "loop"
  /\ LET secondsToHour == 60 * (60 - TimeMinute(now))
     IN  /\ now + secondsToHour <= StartTime + (MaxHours + 1) * 3600
         /\ Reboot("Sleep", fram, now + secondsToHour)
  /\ Did("loop_LOW_BATTERY", << >>, Notice)
  /\ UNCHANGED calls

\* resolveAlert(), called when alertValue != 0
AlertNotice == IF alertValue # 0 /\ connected /\ verboseMode THEN <<"Alerts">> ELSE << >>

\* case REPORTING_STATE with a sendEvent() that leaves currentHourlyPeriod alone
ReportingTickKeepsHour ==
  /\ state = REPORTING_STATE /\ pc = "loop"
  /\ NoteTransition
  /\ IF connected
     THEN /\ webhookTimeStamp' = millis
          /\ pending' = TRUE
          /\ ackedOk' = FALSE
          /\ pc' = "sendEvent"
          /\ DidGated("loop_REPORTING", <<1>>, Notice \o AlertNotice \o <<"Monitoring_Event">>)
          /\ UNCHANGED <<state, faultTime, currentHourlyPeriod>>
     ELSE /\ state' = ERROR_STATE
          /\ faultTime' = millis
          /\ DidGated("loop_REPORTING", <<0>>, Notice)
          /\ UNCHANGED <<webhookTimeStamp, currentHourlyPeriod, pending, ackedOk, pc>>
  /\ UNCHANGED <<fram, resetCount, controlRegister, verboseMode, dailyPumpingMins,
                 pumpingStart, alertValue, pumpAmps, stateOfCharge, dataInFlight,
                 resetTimeStamp, pumpingEnabled, pumpControlPin, timerActive,
                 timerStart, watchdogFlag, lastSample, connected, now, bootTime,
                 bootCause, calls>>

\* case REPORTING_STATE up to the assignment of dataInFlight in sendEvent():
\* with a connection the event is published and the send is time-stamped
ReportingTick ==
  /\ state = REPORTING_STATE /\ pc = "loop"
  /\ NoteTransition
  /\ IF connected
     THEN /\ webhookTimeStamp' = millis
          /\ currentHourlyPeriod' = TimeHour(now)
          /\ pending' = TRUE
          /\ ackedOk' = FALSE
          /\ pc' = "sendEvent"
          /\ DidGated("loop_REPORTING", <<1>>, Notice \o AlertNotice \o <<"Monitoring_Event">>)
          /\ UNCHANGED <<state, faultTime>>
     ELSE /\ state' = ERROR_STATE
          /\ faultTime' = millis
          /\ DidGated("loop_REPORTING", <<0>>, Notice)
          /\ UNCHANGED <<webhookTimeStamp, currentHourlyPeriod, pending, ackedOk, pc>>
  /\ UNCHANGED <<fram, resetCount, controlRegister, verboseMode, dailyPumpingMins,
                 pumpingStart, alertValue, pumpAmps, stateOfCharge, dataInFlight,
                 resetTimeStamp, pumpingEnabled, pumpControlPin, timerActive,
                 timerStart, watchdogFlag, lastSample, connected, now, bootTime,
                 bootCause, calls>>

\* dailyCleanup() runs when the hour is 0
CleanupDue == TimeHour(now) = 0

\* dailyCleanup() without its fram.get: the register written back is the copy
\* in memory
dailyCleanupStaleRegister(f) ==
  LET cr == WithoutBit(controlRegister, 8)
  IN  [verboseMode |-> FALSE, controlRegister |-> cr, dailyPumpingMins |-> 0,
       fram |-> FramPut8(FramPut32(f, dailyPumpingMinsAddr, 0),
                         controlRegisterAddr, cr)]

\* dailyCleanup() on the FRAM f: the values it leaves in memory and in the FRAM
dailyCleanup(f) ==
  LET cr == WithoutBit(FramGet8(f, controlRegisterAddr), 8)
  IN  [verboseMode |-> FALSE, controlRegister |-> cr, dailyPumpingMins |-> 0,
       fram |-> FramPut8(FramPut32(f, dailyPumpingMinsAddr, 0),
                         controlRegisterAddr, cr)]

\* the rest of case REPORTING_STATE: dataInFlight = true, dailyCleanup() at
\* hour 0, state = RESP_WAIT_STATE
SendEventFinish ==
  /\ pc = "sendEvent"
  /\ dataInFlight' = TRUE
  /\ IF CleanupDue
     THEN LET c == dailyCleanup(fram)
          IN  /\ verboseMode' = c.verboseMode
              /\ controlRegister' = c.controlRegister
              /\ dailyPumpingMins' = c.dailyPumpingMins
              /\ fram' = c.fram
              /\ DidGated("sendEvent_done", <<1>>, <<"Daily Cleanup">>)
     ELSE /\ UNCHANGED <<verboseMode, controlRegister, dailyPumpingMins, fram>>
          /\ DidGated("sendEvent_done", <<0>>, << >>)
  /\ state' = RESP_WAIT_STATE
  /\ pc' = "loop"
  /\ UNCHANGED <<oldState, resetCount, pumpingStart, alertValue, pumpAmps,
                 stateOfCharge, webhookTimeStamp, resetTimeStamp, currentHourlyPeriod,
                 pumpingEnabled, pumpControlPin, timerActive, timerStart, watchdogFlag,
                 lastSample, connected, now, bootTime, bootCause, pending, faultTime,
                 ackedOk, calls>>

\* case RESP_WAIT_STATE servicing the watchdog as the Idle case does
RespWaitTickPets ==
  /\ state = RESP_WAIT_STATE /\ pc = "loop"
  /\ NoteTransition
  /\ watchdogFlag' = FALSE
  /\ LET next == RespWaitNext(dataInFlight, millis - webhookTimeStamp)
     IN  /\ state' = next
         /\ IF next = ERROR_STATE
            THEN /\ resetTimeStamp' = millis
                 /\ faultTime' = millis
                 /\ DidGated("loop_RESP_WAIT", << >>,
                        Notice \o (IF verboseMode THEN <<"State">> ELSE << >>))
            ELSE /\ UNCHANGED <<resetTimeStamp, faultTime>>
                 /\ DidGated("loop_RESP_WAIT", << >>, Notice)
  /\ UNCHANGED <<fram, resetCount, controlRegister, verboseMode, dailyPumpingMins,
                 pumpingStart, alertValue, pumpAmps, stateOfCharge, dataInFlight,
                 webhookTimeStamp, currentHourlyPeriod, pumpingEnabled, pumpControlPin,
                 timerActive, timerStart, lastSample, connected, now,
                 bootTime, bootCause, pc, pending, ackedOk, calls>>

\* case RESP_WAIT_STATE
RespWaitTick ==
  /\ state = RESP_WAIT_STATE /\ pc = "loop"
  /\ NoteTransition
  /\ LET next == RespWaitNext(dataInFlight, millis - webhookTimeStamp)
     IN  /\ state' = next
         /\ IF next = ERROR_STATE
            THEN /\ resetTimeStamp' = millis
                 /\ faultTime' = millis
                 /\ DidGated("loop_RESP_WAIT", << >>,
                        Notice \o (IF verboseMode THEN <<"State">> ELSE << >>))
            ELSE /\ UNCHANGED <<resetTimeStamp, faultTime>>
                 /\ DidGated("loop_RESP_WAIT", << >>, Notice)
  /\ UNCHANGED <<fram, resetCount, controlRegister, verboseMode, dailyPumpingMins,
                 pumpingStart, alertValue, pumpAmps, stateOfCharge, dataInFlight,
                 webhookTimeStamp, currentHourlyPeriod, pumpingEnabled, pumpControlPin,
                 timerActive, timerStart, watchdogFlag, lastSample, connected, now,
                 bootTime, bootCause, pc, pending, ackedOk, calls>>

\* case ERROR_STATE; delay(2000) and the ten seconds of deep sleep in
\* fullModemReset() are shorter than one step of the clock
ErrorTick ==
  /\ state = ERROR_STATE /\ pc = "loop"
  /\ LET lastWebHookResponse == FramGet32(fram, lastHookResponseAddr)
         tier == RecoveryTier(resetCount, now, lastWebHookResponse)
         note == Notice \o (IF connected THEN <<"State">> ELSE << >>)
     IN  IF QuietPeriodOver(millis - resetTimeStamp)
         THEN /\ Reboot(tier,
                        IF tier = "SoftReset" THEN fram
                        ELSE FramPut32(fram, resetCountAddr, 0),
                        now)
              /\ Did(tier, << >>, note)
              /\ UNCHANGED calls
         ELSE /\ NoteTransition
              /\ DidGated("loop_ERROR", << >>, Notice)
              /\ UNCHANGED <<state, fram, resetCount, controlRegister, verboseMode,
                             dailyPumpingMins, pumpingStart, alertValue, pumpAmps,
                             stateOfCharge, dataInFlight, webhookTimeStamp,
                             resetTimeStamp, currentHourlyPeriod, pumpingEnabled,
                             pumpControlPin, timerActive, timerStart, watchdogFlag,
                             lastSample, connected, now, bootTime, bootCause, pc,
                             pending, faultTime, ackedOk, calls>>

-----------------------------------------------------------------------------
(* Callbacks of the cloud: subscriptions and functions *)

CloudCallable == connected /\ state # INITIALIZATION_STATE

\* UbidotsHandler(event, data): the webhook's response
UbidotsHandler(data) ==
  /\ CloudCallable /\ pending
  /\ pending' = FALSE
  /\ IF data # NoData /\ AckAccepted(Atoi(data))
     THEN /\ fram' = FramPut32(fram, lastHookResponseAddr, now)
          /\ dataInFlight' = FALSE
          /\ ackedOk' = TRUE
          /\ DidGated("UbidotsHandler", data, <<"State">>)
     ELSE /\ UNCHANGED <<fram, dataInFlight, ackedOk>>
          /\ DidGated("UbidotsHandler", data, <<"Ubidots Hook">>)
  /\ UNCHANGED <<state, oldState, resetCount, controlRegister, verboseMode,
                 dailyPumpingMins, pumpingStart, alertValue, pumpAmps, stateOfCharge,
                 webhookTimeStamp, resetTimeStamp, currentHourlyPeriod, pumpingEnabled,
                 pumpControlPin, timerActive, timerStart, watchdogFlag, lastSample,
                 connected, now, bootTime, bootCause, pc, faultTime, calls>>

\* pumpControl(command)
pumpControl(command) ==
  /\ CloudCallable
  /\ Budgeted
  /\ pumpingEnabled' = IF command = <<1>> THEN TRUE
                       ELSE IF command = <<0>> THEN FALSE ELSE pumpingEnabled
  /\ Did("pumpControl", command, << >>)
  /\ UNCHANGED <<state, oldState, fram, resetCount, controlRegister, verboseMode,
                 dailyPumpingMins, pumpingStart, alertValue, pumpAmps, stateOfCharge,
                 dataInFlight, webhookTimeStamp, resetTimeStamp, currentHourlyPeriod,
                 pumpControlPin, timerActive, timerStart, watchdogFlag, lastSample, lastPublish,
                 connected, now, bootTime, bootCause, pc, pending, faultTime, ackedOk>>

\* pumpControlHandler(event, data)
pumpControlHandler(data) ==
  /\ CloudCallable
  /\ Budgeted
  /\ LET onOrOff == Atoi(data)
     IN  /\ pumpingEnabled' = IF onOrOff = 1 THEN TRUE
                              ELSE IF onOrOff = 0 THEN FALSE ELSE pumpingEnabled
         /\ DidGated("pumpControlHandler", data,
                IF onOrOff \in {0, 1} THEN <<"Status">> ELSE << >>)
  /\ UNCHANGED <<state, oldState, fram, resetCount, controlRegister, verboseMode,
                 dailyPumpingMins, pumpingStart, alertValue, pumpAmps, stateOfCharge,
                 dataInFlight, webhookTimeStamp, resetTimeStamp, currentHourlyPeriod,
                 pumpControlPin, timerActive, timerStart, watchdogFlag, lastSample,
                 connected, now, bootTime, bootCause, pc, pending, faultTime, ackedOk>>

\* resetFRAM(command)
resetFRAM(command) ==
  /\ CloudCallable
  /\ Budgeted
  /\ fram' = IF command = <<1>> THEN FramErased ELSE fram
  /\ Did("resetFRAM", command, << >>)
  /\ UNCHANGED <<state, oldState, resetCount, controlRegister, verboseMode,
                 dailyPumpingMins, pumpingStart, alertValue, pumpAmps, stateOfCharge,
                 dataInFlight, webhookTimeStamp, resetTimeStamp, currentHourlyPeriod,
                 pumpingEnabled, pumpControlPin, timerActive, timerStart, watchdogFlag,
                 lastSample, lastPublish, connected, now, bootTime, bootCause, pc, pending,
                 faultTime, ackedOk>>

\* resetCounts without the test of its argument
resetCountsAnyCommand(command) ==
  /\ CloudCallable
  /\ Budgeted
  /\ fram' = FramPut32(FramPut32(fram, resetCountAddr, 0), dailyPumpingMinsAddr, 0)
  /\ resetCount' = 0
  /\ dataInFlight' = FALSE
  /\ dailyPumpingMins' = 0
  /\ alertValue' = 0
  /\ Did("resetCounts", command, << >>)
  /\ UNCHANGED <<state, oldState, controlRegister, verboseMode, pumpingStart,
                 pumpAmps, stateOfCharge, webhookTimeStamp, resetTimeStamp,
                 currentHourlyPeriod, pumpingEnabled, pumpControlPin, timerActive,
                 timerStart, watchdogFlag, lastSample, lastPublish, connected, now, bootTime,
                 bootCause, pc, pending, faultTime, ackedOk>>

\* resetCounts(command)
resetCounts(command) ==
  /\ CloudCallable
  /\ Budgeted
  /\ IF command = <<1>>
     THEN /\ fram' = FramPut32(FramPut32(fram, resetCountAddr, 0),
                               dailyPumpingMinsAddr, 0)
          /\ resetCount' = 0
          /\ dataInFlight' = FALSE
          /\ dailyPumpingMins' = 0
          /\ alertValue' = 0
     ELSE UNCHANGED <<fram, resetCount, dataInFlight, dailyPumpingMins, alertValue>>
  /\ Did("resetCounts", command, << >>)
  /\ UNCHANGED <<state, oldState, controlRegister, verboseMode, pumpingStart,
                 pumpAmps, stateOfCharge, webhookTimeStamp, resetTimeStamp,
                 currentHourlyPeriod, pumpingEnabled, pumpControlPin, timerActive,
                 timerStart, watchdogFlag, lastSample, lastPublish, connected, now, bootTime,
                 bootCause, pc, pending, faultTime, ackedOk>>

\* hardResetNow(command): "1" cuts the power of the board
hardResetNow(command) ==
  /\ CloudCallable
  /\ Budgeted
  /\ IF command = <<1>>
     THEN Reboot("HardResetNow", fram, now)
     ELSE UNCHANGED <<ram, fram, now, bootTime, bootCause, connected, pending, pc,
                      faultTime, ackedOk>>
  /\ Did("hardResetNow", command, << >>)

\* sendNow(command)
sendNow(command) ==
  /\ CloudCallable
  /\ Budgeted
  /\ state' = IF command = <<1>> THEN REPORTING_STATE ELSE state
  /\ Did("sendNow", command, << >>)
  /\ UNCHANGED <<oldState, fram, resetCount, controlRegister, verboseMode,
                 dailyPumpingMins, pumpingStart, alertValue, pumpAmps, stateOfCharge,
                 dataInFlight, webhookTimeStamp, resetTimeStamp, currentHourlyPeriod,
                 pumpingEnabled, pumpControlPin, timerActive, timerStart, watchdogFlag,
                 lastSample, lastPublish, connected, now, bootTime, bootCause, pc, pending,
                 faultTime, ackedOk>>

\* setVerboseMode(command)
setVerboseMode(command) ==
  /\ CloudCallable
  /\ Budgeted
  /\ IF command \in {<<1>>, <<0>>}
     THEN LET cr0 == FramGet8(fram, controlRegisterAddr)
              cr == IF command = <<1>> THEN WithBit(cr0, 8) ELSE WithoutBit(cr0, 8)
          IN  /\ verboseMode' = (command = <<1>>)
              /\ controlRegister' = cr
              /\ fram' = FramPut8(fram, controlRegisterAddr, cr)
              /\ DidGated("setVerboseMode", command, <<"Mode">>)
     ELSE /\ UNCHANGED <<verboseMode, controlRegister, fram>>
          /\ DidGated("setVerboseMode", command, << >>)
  /\ UNCHANGED <<state, oldState, resetCount, dailyPumpingMins, pumpingStart,
                 alertValue, pumpAmps, stateOfCharge, dataInFlight, webhookTimeStamp,
                 resetTimeStamp, currentHourlyPeriod, pumpingEnabled, pumpControlPin,
                 timerActive, timerStart, watchdogFlag, lastSample, connected, now,
                 bootTime, bootCause, pc, pending, faultTime, ackedOk>>

-----------------------------------------------------------------------------
(* Timer, interrupt and environment *)

\* pumpTimerCallback(), when the one-shot pumpBackupTimer expires
TimerExpired == timerActive /\ millis - timerStart >= pumpBackupPeriod
pumpTimerCallback ==
  /\ TimerExpired
  /\ pumpingEnabled' = FALSE
  /\ timerActive' = FALSE
  /\ Did("pumpTimerCallback", << >>, << >>)
  /\ UNCHANGED <<state, oldState, fram, resetCount, controlRegister, verboseMode,
                 dailyPumpingMins, pumpingStart, alertValue, pumpAmps, stateOfCharge,
                 dataInFlight, webhookTimeStamp, resetTimeStamp, currentHourlyPeriod,
                 pumpControlPin, timerStart, watchdogFlag, lastSample, lastPublish, connected, now,
                 bootTime, bootCause, pc, pending, faultTime, ackedOk, calls>>

\* watchdogISR(), on a rising edge of the wake pin
watchdogISR ==
  /\ state # INITIALIZATION_STATE
  /\ ~watchdogFlag \/ pc = "petWatchdog"
  /\ Budgeted
  /\ watchdogFlag' = TRUE
  /\ Did("watchdogISR", << >>, << >>)
  /\ UNCHANGED <<state, oldState, fram, resetCount, controlRegister, verboseMode,
                 dailyPumpingMins, pumpingStart, alertValue, pumpAmps, stateOfCharge,
                 dataInFlight, webhookTimeStamp, resetTimeStamp, currentHourlyPeriod,
                 pumpingEnabled, pumpControlPin, timerActive, timerStart, lastSample, lastPublish,
                 connected, now, bootTime, bootCause, pc, pending, faultTime, ackedOk>>

\* petWatchdog() up to the end of its pulse on donePin, called by the Idle case
\* on a set flag; the wake interrupt may arrive before the flag is cleared
petWatchdogPulse ==
  /\ state = IDLE_STATE /\ pc = "loop"
  /\ watchdogFlag
  /\ pc' = "petWatchdog"
  /\ Did("petWatchdog", << >>, << >>)
  /\ UNCHANGED <<state, oldState, fram, resetCount, controlRegister, verboseMode,
                 dailyPumpingMins, pumpingStart, alertValue, pumpAmps, stateOfCharge,
                 dataInFlight, webhookTimeStamp, resetTimeStamp, currentHourlyPeriod,
                 pumpingEnabled, pumpControlPin, timerActive, timerStart, watchdogFlag,
                 lastSample, lastPublish, connected, now, bootTime, bootCause, pending,
                 faultTime, ackedOk, calls>>

\* the last statement of petWatchdog(): watchdogFlag = false; the rest of the
\* Idle case follows as IdleTick
petWatchdogClear ==
  /\ pc = "petWatchdog"
  /\ watchdogFlag' = FALSE
  /\ pc' = "loop"
  /\ Did("petWatchdog_done", << >>, << >>)
  /\ UNCHANGED <<state, oldState, fram, resetCount, controlRegister, verboseMode,
                 dailyPumpingMins, pumpingStart, alertValue, pumpAmps, stateOfCharge,
                 dataInFlight, webhookTimeStamp, resetTimeStamp, currentHourlyPeriod,
                 pumpingEnabled, pumpControlPin, timerActive, timerStart,
                 lastSample, lastPublish, connected, now, bootTime, bootCause, pending,
                 faultTime, ackedOk, calls>>

\* loop() runs again within much less than one step of the clock: a step passes
\* only when the case of the current state has nothing left to do at this time
LoopSettled ==
  /\ pc = "loop"
  /\ CASE state = INITIALIZATION_STATE -> TRUE
       [] state = IDLE_STATE ->
            /\ ~SampleGateOpen
            /\ ~watchdogFlag
            /\ IdleNextState(TimeHour(now) # currentHourlyPeriod,
                             stateOfCharge <= lowBattLimit,
                             pumpingEnabled \/ pumpControlPin) \in {IDLE_STATE, PUMPING_STATE}
            /\ pumpingEnabled = pumpControlPin
       [] state = PUMPING_STATE -> pumpingEnabled = pumpControlPin
       [] state = RESP_WAIT_STATE ->
            RespWaitNext(dataInFlight, millis - webhookTimeStamp) = RESP_WAIT_STATE
       [] state = ERROR_STATE -> ~QuietPeriodOver(millis - resetTimeStamp)
       [] OTHER -> FALSE

\* the clock advances by one small step, at most maxFine of them past the hour
FineUsed == ((now - StartTime) % 3600) \div Grain
Advance(maxFine) ==
  /\ LoopSettled
  /\ ~TimerExpired
  /\ FineUsed < maxFine
  /\ now' = now + Grain
  /\ Did("time", << >>, << >>)
  /\ UNCHANGED <<ram, fram, bootTime, bootCause, connected, pending, pc, faultTime,
                 ackedOk, calls>>

\* nothing happens until the running pumpBackupTimer is about to expire
TimerRunsOut ==
  /\ LoopSettled
  /\ timerActive /\ ~TimerExpired
  /\ now' = bootTime + (timerStart + pumpBackupPeriod) \div 1000
  /\ Did("timer", << >>, << >>)
  /\ UNCHANGED <<ram, fram, bootTime, bootCause, connected, pending, pc, faultTime,
                 ackedOk, calls>>

\* meterParticlePublish() on the sample gate's static: the two gates share
\* one clock
meterParticlePublishOnSampleClock ==
  /\ state # INITIALIZATION_STATE /\ pc = "loop"
  /\ IF millis - lastSample >= publishInterval
     THEN lastSample' = millis /\ Did("meterParticlePublish", <<1>>, << >>)
     ELSE UNCHANGED lastSample /\ Did("meterParticlePublish", <<0>>, << >>)
  /\ UNCHANGED <<state, oldState, fram, resetCount, controlRegister, verboseMode,
                 dailyPumpingMins, pumpingStart, alertValue, pumpAmps, stateOfCharge,
                 dataInFlight, webhookTimeStamp, resetTimeStamp, currentHourlyPeriod,
                 pumpingEnabled, pumpControlPin, timerActive, timerStart, watchdogFlag,
                 lastPublish, connected, now, bootTime, bootCause, pc, pending,
                 faultTime, ackedOk, calls>>

\* meterParticlePublish(): one call of the gate by a handler that waits, in
\* waitUntil(meterParticlePublish), for the permission to publish
meterParticlePublish ==
  /\ state # INITIALIZATION_STATE /\ pc = "loop"
  /\ IF PublishGateOpen
     THEN lastPublish' = millis /\ Did("meterParticlePublish", <<1>>, << >>)
     ELSE UNCHANGED lastPublish /\ Did("meterParticlePublish", <<0>>, << >>)
  /\ UNCHANGED <<state, oldState, fram, resetCount, controlRegister, verboseMode,
                 dailyPumpingMins, pumpingStart, alertValue, pumpAmps, stateOfCharge,
                 dataInFlight, webhookTimeStamp, resetTimeStamp, currentHourlyPeriod,
                 pumpingEnabled, pumpControlPin, timerActive, timerStart, watchdogFlag,
                 lastSample, connected, now, bootTime, bootCause, pc, pending,
                 faultTime, ackedOk, calls>>

\* one second passes, while the loop runs or waits on a gate
Second ==
  /\ (now - StartTime) % Grain < GateSeconds
  /\ now' = now + 1
  /\ Did("second", << >>, << >>)
  /\ UNCHANGED <<ram, fram, bootTime, bootCause, connected, pending, pc, faultTime,
                 ackedOk, calls>>

\* the reset pin is pulled: the external watchdog, or the button
PinReset ==
  /\ state # INITIALIZATION_STATE
  /\ Budgeted
  /\ Reboot("PinReset", fram, now)
  /\ Did("PinReset", << >>, << >>)

\* the cloud session is lost, or comes up after Particle.connect()
CloudDrop ==
  /\ connected
  /\ Budgeted
  /\ connected' = FALSE /\ pending' = FALSE
  /\ Did("CloudDrop", << >>, << >>)
  /\ UNCHANGED <<ram, fram, now, bootTime, bootCause, pc, faultTime, ackedOk>>

CloudUp ==
  /\ ~connected /\ state # INITIALIZATION_STATE
  /\ connected' = TRUE
  /\ Did("CloudUp", << >>, << >>)
  /\ UNCHANGED <<ram, fram, now, bootTime, bootCause, pc, pending, faultTime, ackedOk, calls>>

-----------------------------------------------------------------------------
(* The whole device: every case of loop() and every callback, with quiet
   sensors; the clock runs past midnight, and up to the expiry of the pump's
   backup timer when that timer runs *)
Next ==
  \/ \E soc \in SoCValues, ok \in BOOLEAN : Setup(soc, ok)
  \/ \E soc \in SoCValues : IdleTick(soc, <<TRUE, TRUE, TRUE>>, 256)
  \/ PumpingTick
  \/ LowBatteryTick
  \/ ReportingTick
  \/ SendEventFinish
  \/ RespWaitTick
  \/ ErrorTick
  \/ \E data \in {NoData, <<2, 0, 0>>, <<4, 0, 4>>} : UbidotsHandler(data)
  \/ \E command \in Commands : pumpControl(command)
  \/ \E data \in PumpEvents : pumpControlHandler(data)
  \/ \E command \in {<<1>>, <<0>>} : resetFRAM(command)
  \/ \E command \in {<<1>>, <<0>>} : resetCounts(command)
  \/ \E command \in {<<1>>, <<0>>} : hardResetNow(command)
  \/ \E command \in {<<1>>, <<0>>} : sendNow(command)
  \/ \E command \in Commands : setVerboseMode(command)
  \/ pumpTimerCallback
  \/ watchdogISR
  \/ Advance(AllFine)
  \/ TimerRunsOut
  \/ PinReset
  \/ CloudDrop
  \/ CloudUp

Spec == Init /\ [][Next]_vars

(* The webhook exchange and the recovery from its failures: a healthy battery,
   quiet sensors and no operator; the cloud session may drop and the reset pin
   may be pulled *)
NextExchange ==
  \/ \E ok \in BOOLEAN : Setup(80, ok)
  \/ IdleTick(80, <<TRUE, TRUE, TRUE>>, 0)
  \/ ReportingTick
  \/ SendEventFinish
  \/ RespWaitTick
  \/ ErrorTick
  \/ \E data \in Payloads : UbidotsHandler(data)
  \/ Advance(MaxFine)
  \/ PinReset
  \/ CloudDrop
  \/ CloudUp

SpecExchange == Init /\ [][NextExchange]_vars

(* Pumping and sampling: every reading of the sensors, the pump commanded
   through pumpControl, the backup timer *)
NextPump ==
  \/ \E soc \in SoCValues : Setup(soc, TRUE)
  \/ \E soc \in SoCValues, sense \in SensePatterns, raw \in RawSamples :
       IdleTick(soc, sense, raw)
  \/ PumpingTick
  \/ LowBatteryTick
  \/ ReportingTick
  \/ SendEventFinish
  \/ RespWaitTick
  \/ ErrorTick
  \/ \E data \in {<<2, 0, 0>>, <<4, 0, 4>>} : UbidotsHandler(data)
  \/ \E command \in Commands : pumpControl(command)
  \/ pumpTimerCallback
  \/ Advance(PumpFine)
  \/ TimerRunsOut

SpecPump == Init /\ [][NextPump]_vars

(* The pumping session and the pump's output: a healthy battery, quiet alert
   inputs, the pump commanded through pumpControl, the backup timer, and the
   reset pin *)
NextSession ==
  \/ Setup(80, TRUE)
  \/ \E raw \in {0, 256} : IdleTick(80, <<TRUE, TRUE, TRUE>>, raw)
  \/ PumpingTick
  \/ ReportingTick
  \/ SendEventFinish
  \/ RespWaitTick
  \/ ErrorTick
  \/ UbidotsHandler(<<2, 0, 0>>)
  \/ \E command \in Commands : pumpControl(command)
  \/ pumpTimerCallback
  \/ Advance(SessionFine)
  \/ TimerRunsOut
  \/ PinReset

SpecSession == Init /\ [][NextSession]_vars

(* The sampling run: a healthy battery, every reading of the alert inputs and
   of the pump current, the pump commanded through pumpControl *)
NextSampling ==
  \/ Setup(80, TRUE)
  \/ \E sense \in SensePatterns, raw \in RawSamples : IdleTick(80, sense, raw)
  \/ PumpingTick
  \/ ReportingTick
  \/ SendEventFinish
  \/ RespWaitTick
  \/ UbidotsHandler(<<2, 0, 0>>)
  \/ \E command \in Commands : pumpControl(command)
  \/ Advance(SampleFine)

SpecSampling == Init /\ [][NextSampling]_vars

\* one pass of loop(): the system thread calls loop() again and again
LoopTick ==
  \/ \E sense \in SensePatterns, raw \in RawSamples : IdleTick(80, sense, raw)
  \/ PumpingTick
  \/ ReportingTick
  \/ SendEventFinish
  \/ RespWaitTick

(* The sampling run under a loop() that never stops being called; the clock of
   the model is bounded, so an endless run ends in passes of loop() within one
   second *)
SpecHourly == Init /\ [][NextSampling]_vars /\ WF_vars(LoopTick)

(* The wake interrupt against the loop, petWatchdog() statement by statement *)
NextWatchdog ==
  \/ Setup(80, TRUE)
  \/ IdleTick(80, <<TRUE, TRUE, TRUE>>, 0)
  \/ petWatchdogPulse
  \/ petWatchdogClear
  \/ watchdogISR
  \/ ReportingTick
  \/ SendEventFinish
  \/ RespWaitTick
  \/ UbidotsHandler(<<2, 0, 0>>)
  \/ Advance(WatchdogFine)

SpecWatchdog == Init /\ [][NextWatchdog]_vars

(* The two rate gates, second by second: the sampling of the Idle case and the
   calls of the publish gate by the handlers that wait on it before they
   publish; a boot before midnight leaves Idle for Reporting, whose sendEvent()
   waits on the publish gate *)
NextGates ==
  \/ Setup(80, TRUE)
  \/ IdleTick(80, <<TRUE, TRUE, TRUE>>, 0)
  \/ meterParticlePublish
  \/ Second
  \/ Advance(GateFine)
  \/ PinReset

SpecGates == Init /\ [][NextGates]_vars

-----------------------------------------------------------------------------
(* Properties of the error recovery *)

RecoveryOps == {"SoftReset", "PowerCycle", "ModemReset"}
PersistedResetCount(f) == FramGet32(f, resetCountAddr)
PersistedLastAck(f) == FramGet32(f, lastHookResponseAddr)
Count(seq, x) == Cardinality({i \in DOMAIN seq : seq[i] = x})

\* C2: however Error was entered (RespWait timeout, or Reporting without a
\* connection), no recovery action (soft reset, power cycle, modem reset) is
\* taken before resetWait (30 000 ms) has elapsed since Error was entered.
RecoveryWaitsQuietPeriod ==
  [][(state = ERROR_STATE /\ op' \in RecoveryOps) => millis - faultTime >= 30000]_vars

\* C3: an Error tick whose quiet period has expired takes exactly one tier:
\* soft reset iff resetCount <= 3, else power cycle iff now - lastAckTime > 7200 s,
\* else modem reset; the power cycle and the modem reset write 0 to the
\* persisted resetCount, the soft reset leaves it as it is; before the quiet
\* period has expired no tier is taken.
TierByCountThenAckAge ==
  [][(state = ERROR_STATE /\ op' \in RecoveryOps \cup {"loop_ERROR"}) =>
       IF millis - resetTimeStamp >= 30000
       THEN /\ op' = (IF resetCount <= 3 THEN "SoftReset"
                      ELSE IF now - PersistedLastAck(fram) > 7200 THEN "PowerCycle"
                      ELSE "ModemReset")
            /\ bootCause' = op'
            /\ IF op' = "SoftReset"
               THEN fram' = fram
               ELSE PersistedResetCount(fram') = 0
       ELSE op' = "loop_ERROR" /\ state' = ERROR_STATE /\ fram' = fram
  ]_vars

\* the device has just cut its power with a persisted count that was above 3
\* and no acknowledgment in the last 7200 s
PowerCycleTaken ==
  /\ op = "PowerCycle" /\ bootCause = "PowerCycle"
  /\ state = INITIALIZATION_STATE
  /\ PersistedResetCount(fram) = 0
  /\ now - PersistedLastAck(fram) > 7200

\* C5: the boot that follows a soft reset issued by the Error state increments
\* resetCount, in memory and in the FRAM, by exactly one.
SoftResetIsCounted ==
  [][(op' = "setup" /\ bootCause = "SoftReset") =>
       /\ PersistedResetCount(fram') = PersistedResetCount(fram) + 1
       /\ resetCount' = PersistedResetCount(fram')
  ]_vars

-----------------------------------------------------------------------------
(* Properties of the webhook exchange *)

\* C6: a RespWait tick moves to Idle when dataInFlight is false; otherwise to
\* Error, recording the fault time, when at least webhookWait (45 000 ms) have
\* passed since the send; otherwise it stays.  RespWait is never left for Error
\* before 45 000 ms have passed since the send.
RespWaitBranches ==
  [][/\ (state = RESP_WAIT_STATE /\ op' = "loop_RESP_WAIT") =>
          IF ~dataInFlight THEN state' = IDLE_STATE /\ resetTimeStamp' = resetTimeStamp
          ELSE IF millis - webhookTimeStamp >= 45000
               THEN state' = ERROR_STATE /\ resetTimeStamp' = millis
               ELSE state' = RESP_WAIT_STATE /\ resetTimeStamp' = resetTimeStamp
     /\ (state = RESP_WAIT_STATE /\ state' = ERROR_STATE) =>
          millis - webhookTimeStamp >= 45000
  ]_vars

\* the wait has just timed out
ResponseTimedOut ==
  /\ op = "loop_RESP_WAIT" /\ state = ERROR_STATE
  /\ dataInFlight
  /\ resetTimeStamp = millis
  /\ millis - webhookTimeStamp >= 45000

\* C7: an event whose 200/201 acknowledgment was delivered, at whatever point
\* of the loop, never ends in the timeout-driven Error.
AckedEventNeverTimesOut ==
  ~(state = ERROR_STATE /\ op = "loop_RESP_WAIT" /\ ackedOk)

\* C9: UbidotsHandler with no payload, or with a code other than 200 and 201,
\* leaves dataInFlight and the persisted lastAckTime as they are; with 200 or
\* 201 it sets the persisted lastAckTime to the current time and clears
\* dataInFlight.
AckOnly200Or201 ==
  [][op' = "UbidotsHandler" =>
       IF arg' # NoData /\ Atoi(arg') \in {200, 201}
       THEN PersistedLastAck(fram') = now /\ ~dataInFlight'
       ELSE fram' = fram /\ dataInFlight' = dataInFlight
  ]_vars

\* a 201 has just cleared the flag of the event in flight
Accepted201 ==
  /\ op = "UbidotsHandler" /\ arg = <<2, 0, 1>>
  /\ state = RESP_WAIT_STATE
  /\ ~dataInFlight
  /\ PersistedLastAck(fram) = now

\* C10: a Reporting tick without a connection moves to Error, sends no event
\* and leaves dataInFlight, the send time and the last-reported hour as they
\* are; with a connection it sends exactly one Monitoring_Event, records the
\* send time and the current hour as the last-reported hour, sets dataInFlight
\* and moves to RespWait.
ReportingTickEffect ==
  [][/\ (state = REPORTING_STATE /\ op' = "loop_REPORTING") =>
          IF connected
          THEN /\ Count(pubs', "Monitoring_Event") = 1
               /\ webhookTimeStamp' = millis
               /\ currentHourlyPeriod' = TimeHour(now)
               /\ pc' = "sendEvent"
          ELSE /\ state' = ERROR_STATE
               /\ Count(pubs', "Monitoring_Event") = 0
               /\ UNCHANGED <<dataInFlight, webhookTimeStamp, currentHourlyPeriod>>
               /\ pc' = "loop"
     /\ (pc = "sendEvent" /\ op' = "sendEvent_done") =>
          /\ dataInFlight'
          /\ state' = RESP_WAIT_STATE
          /\ Count(pubs', "Monitoring_Event") = 0
          /\ UNCHANGED <<webhookTimeStamp, currentHourlyPeriod>>
          /\ pc' = "loop"
  ]_vars

\* a report has just been sent in hour 23
ReportSentForHour ==
  /\ op = "sendEvent_done" /\ state = RESP_WAIT_STATE
  /\ dataInFlight
  /\ webhookTimeStamp = millis
  /\ TimeHour(now) = 23 /\ currentHourlyPeriod = 23

-----------------------------------------------------------------------------
(* Properties of the Idle tick and of the persisted counters *)

\* C1: an Idle tick chooses the next state by the first rule that matches:
\* (a) the hour differs from the last reported hour -> Reporting; (b) the
\* state of charge is at most 30 -> Low Battery; (c) the pump is requested on
\* or its output is on -> Pumping; (d) otherwise the state stays Idle unless
\* the sampling run, when the sample gate fires, forces Reporting.
IdleFirstMatchWins ==
  [][(state = IDLE_STATE /\ op' = "loop_IDLE") =>
       IF TimeHour(now) # currentHourlyPeriod THEN state' = REPORTING_STATE
       ELSE IF stateOfCharge <= 30 THEN state' = LOW_BATTERY_STATE
       ELSE IF pumpingEnabled \/ pumpControlPin THEN state' = PUMPING_STATE
       ELSE IF arg' = <<1>> THEN state' \in {IDLE_STATE, REPORTING_STATE}
       ELSE state' = IDLE_STATE
  ]_vars

\* C4: the persisted resetCount decreases only through a power cycle, a modem
\* reset or an operator's reset command, and increases only in setup() after
\* a reset, by one.
PersistedResetCountMonotone ==
  [][/\ PersistedResetCount(fram') < PersistedResetCount(fram) =>
          op' \in {"PowerCycle", "ModemReset", "resetCounts", "resetFRAM"}
     /\ PersistedResetCount(fram') > PersistedResetCount(fram) =>
          /\ op' = "setup"
          /\ bootCause \in {"PinReset", "SoftReset", "PowerCycle", "ModemReset"}
          /\ PersistedResetCount(fram') = PersistedResetCount(fram) + 1
  ]_vars

-----------------------------------------------------------------------------
(* Writers of dataInFlight; a restart re-initialises the flag with the rest of
   the RAM, which is how the timeout and escalation path leaves it false *)

Restarted == state # INITIALIZATION_STATE /\ state' = INITIALIZATION_STATE
AcceptedAck == op' = "UbidotsHandler" /\ arg' # NoData /\ Atoi(arg') \in {200, 201}

\* C8, as claimed: dataInFlight becomes true only in sendEvent(), and becomes
\* false only in UbidotsHandler on a 200 or 201 or on the timeout and
\* escalation path; no other operation changes it.
DataInFlightTwoClearers ==
  [][dataInFlight' # dataInFlight =>
       IF dataInFlight' THEN op' = "sendEvent_done"
       ELSE AcceptedAck \/ Restarted
  ]_vars

\* C8, amended: dataInFlight becomes true only in sendEvent(), and becomes
\* false only in UbidotsHandler on a 200 or 201, in resetCounts("1"), or on the
\* timeout and escalation path; no other operation changes it.
DataInFlightWriters ==
  [][dataInFlight' # dataInFlight =>
       IF dataInFlight' THEN op' = "sendEvent_done"
       ELSE \/ AcceptedAck
            \/ Restarted
            \/ (op' = "resetCounts" /\ arg' = <<1>>)
  ]_vars

\* resetCounts("1") has just cleared the flag of an unacknowledged event
ClearedByResetCounts ==
  /\ op = "resetCounts" /\ arg = <<1>>
  /\ state = RESP_WAIT_STATE /\ pc = "loop"
  /\ ~ackedOk
  /\ ~dataInFlight

-----------------------------------------------------------------------------
(* Properties of the pumping session *)

\* bit 0b00000010 of the persisted control register, and the persisted start
SessionBit(f) == BitSet(FramGet8(f, controlRegisterAddr), 2)
PersistedPumpingStart(f) == FramGet32(f, pumpingStartAddr)
PersistedPumpingMins(f) == FramGet32(f, dailyPumpingMinsAddr)
SampledIdleTick == op' = "loop_IDLE" /\ arg' = <<1>>

\* C11: the persisted session bit is set only by a sampling run that finds the
\* pump requested on and the bit clear, which persists the current time as
\* the start; it is cleared only by a sampling run that finds the pump
\* requested off and the bit set; while the bit stays set the persisted start
\* is not overwritten, whatever else (resets, verbose toggles, daily cleanup)
\* runs in between.
SessionBitTracksSession ==
  [][/\ (~SessionBit(fram) /\ SessionBit(fram')) =>
          /\ SampledIdleTick /\ pumpingEnabled
          /\ PersistedPumpingStart(fram') = now
     /\ (SessionBit(fram) /\ ~SessionBit(fram')) =>
          SampledIdleTick /\ ~pumpingEnabled
     /\ (SessionBit(fram) /\ SessionBit(fram')) =>
          PersistedPumpingStart(fram') = PersistedPumpingStart(fram)
  ]_vars

\* C12: the sampling run that closes a session opened at time s adds exactly
\* floor((now - s) / 60) to dailyPumpingMins and persists the new total, also
\* when the device was reset between the open and the close.
SessionMinutesExact ==
  [][(SampledIdleTick /\ ~pumpingEnabled /\ SessionBit(fram)) =>
       /\ dailyPumpingMins' = dailyPumpingMins + (now - openedAt) \div 60
       /\ PersistedPumpingMins(fram') = dailyPumpingMins'
  ]_vars

-----------------------------------------------------------------------------
(* Properties of the pump's output *)

\* C13: whenever the pump's output is asserted while the pump is requested
\* on, the backup cutoff timer is running.
AssertedOutputHasTimer ==
  (pumpControlPin /\ pumpingEnabled) => timerActive

OutputRises == ~pumpControlPin /\ pumpControlPin'
OutputFalls == pumpControlPin /\ ~pumpControlPin'

\* C14: the pump's output is asserted only in a Pumping tick with the pump
\* requested on and the output off; it is de-asserted only in a Pumping tick
\* with the pump requested off and the output on, or in LowBattery (whose deep
\* sleep, like every restart, leaves the output low); a Pumping tick with
\* request and output in agreement changes neither the output nor the timer;
\* every Pumping tick ends with state Idle.
ActuationOnEdges ==
  [][/\ OutputRises => (op' = "loop_PUMPING" /\ pumpingEnabled)
     /\ OutputFalls => \/ (op' = "loop_PUMPING" /\ ~pumpingEnabled)
                       \/ op' = "loop_LOW_BATTERY"
                       \/ Restarted
     /\ (state = PUMPING_STATE /\ op' = "loop_PUMPING") =>
          /\ state' = IDLE_STATE
          /\ (pumpingEnabled /\ ~pumpControlPin) =>
                (pumpControlPin' /\ timerActive' /\ timerStart' = millis)
          /\ (~pumpingEnabled /\ pumpControlPin) =>
                (~pumpControlPin' /\ ~timerActive')
          /\ (pumpingEnabled = pumpControlPin) =>
                UNCHANGED <<pumpControlPin, timerActive, timerStart>>
  ]_vars

\* a Pumping tick has just found the pump requested on with its output
\* already asserted, and left output and timer alone
PumpingTickInAgreement ==
  /\ op = "loop_PUMPING" /\ state = IDLE_STATE
  /\ pumpingEnabled /\ pumpControlPin /\ timerActive
  /\ millis > timerStart

-----------------------------------------------------------------------------
(* Properties of the low-battery sleep *)

\* C15: the deep sleep entered from LowBattery leaves the pump's output
\* de-asserted and the cloud session closed, lasts a positive number of
\* seconds, at most 3600, up to the next hour boundary, and ends in a boot
\* (state Init); an Idle tick that does not sample, with the pump neither
\* requested nor on and the state of charge at or below 30, moves to
\* LowBattery.
LowBatterySleepsToHour ==
  [][/\ (state = LOW_BATTERY_STATE /\ op' = "loop_LOW_BATTERY") =>
          /\ ~pumpControlPin' /\ ~connected'
          /\ state' = INITIALIZATION_STATE
          /\ now' - now \in 1 .. 3600
          /\ now' % 3600 = 0
     /\ (/\ state = IDLE_STATE /\ op' = "loop_IDLE" /\ arg' = <<0>>
         /\ ~pumpingEnabled /\ ~pumpControlPin
         /\ stateOfCharge <= 30) => state' = LOW_BATTERY_STATE
  ]_vars

-----------------------------------------------------------------------------
(* Properties of Error and of the boot *)

\* C16: once Error has been entered the state stays Error until a recovery
\* action (soft reset, power cycle, modem reset) is taken: no remote command
\* and no callback takes the device out of Error another way.  (A pull of
\* the reset pin or a power cut restarts the device as a recovery does.)
ErrorEndsInRecovery ==
  [][state = ERROR_STATE =>
       (state' = ERROR_STATE \/ op' \in RecoveryOps \/ Restarted)]_vars

\* C17: setup() attempts the connection exactly when the state of charge is
\* above 30; a boot whose initialization fails (the connection attempted and
\* not obtained) leaves Init for Error, every other boot leaves Init for Idle.
BootToIdleOrError ==
  [][op' = "setup" =>
       /\ state = INITIALIZATION_STATE
       /\ (stateOfCharge' <= 30) => (connected' = connected)
       /\ state' = IF stateOfCharge' > 30 /\ ~connected'
                   THEN ERROR_STATE ELSE IDLE_STATE
  ]_vars

-----------------------------------------------------------------------------
(* Properties of the daily cleanup *)

\* C18: a daily cleanup leaves dailyPumpingMins 0 and verbose mode cleared,
\* in memory and in the FRAM, and leaves the persisted session bit as it was;
\* a second cleanup right after it changes nothing.
CleanupIdempotent ==
  [][(op' = "sendEvent_done" /\ arg' = <<1>>) =>
       LET again == dailyCleanup(fram')
       IN  /\ dailyPumpingMins' = 0 /\ PersistedPumpingMins(fram') = 0
           /\ ~verboseMode'
           /\ ~BitSet(FramGet8(fram', controlRegisterAddr), 8)
           /\ ~BitSet(controlRegister', 8)
           /\ SessionBit(fram') = SessionBit(fram)
           /\ again.fram = fram'
           /\ again.dailyPumpingMins = dailyPumpingMins'
           /\ again.verboseMode = verboseMode'
           /\ again.controlRegister = controlRegister'
  ]_vars

\* the cleanup has just run while a pumping session was open
CleanedUpDuringSession ==
  /\ op = "sendEvent_done" /\ arg = <<1>>
  /\ SessionBit(fram) /\ pumpingEnabled
  /\ dailyPumpingMins = 0 /\ ~verboseMode
  /\ state = RESP_WAIT_STATE

-----------------------------------------------------------------------------
(* Properties of the rate gates *)

PublishGranted == op' = "meterParticlePublish" /\ arg' = <<1>>

\* C19: two grants of the publish gate are at least 1000 ms apart and two
\* grants of the sample gate (two sampling runs) at least 2000 ms apart; a
\* call of one gate leaves the other gate's clock alone, and a call that is
\* refused changes neither.
GatesKeepIntervals ==
  [][/\ PublishGranted =>
          /\ (now - grantAt.publish) * 1000 >= 1000
          /\ lastSample' = lastSample
     /\ SampledIdleTick =>
          /\ (now - grantAt.sample) * 1000 >= 2000
          /\ lastPublish' = lastPublish
     /\ (op' = "meterParticlePublish" /\ arg' = <<0>>) =>
          UNCHANGED <<lastPublish, lastSample>>
  ]_vars

\* the publish gate has just granted, in a boot in which the sample gate has
\* granted at another time
BothGatesGranted ==
  /\ op = "meterParticlePublish" /\ arg = <<1>>
  /\ lastPublish = millis
  /\ lastSample > 0 /\ lastSample # lastPublish
  /\ grantAt.publish = now /\ grantAt.sample < now

-----------------------------------------------------------------------------
(* Properties of the watchdog *)

\* everything the sketch holds except watchdogFlag
allButWatchdogFlag ==
  <<state, oldState, fram, resetCount, controlRegister, verboseMode,
    dailyPumpingMins, pumpingStart, alertValue, pumpAmps, stateOfCharge,
    dataInFlight, webhookTimeStamp, resetTimeStamp, currentHourlyPeriod,
    pumpingEnabled, pumpControlPin, timerActive, timerStart, lastSample,
    lastPublish, connected, now, bootTime, pc, pending>>

\* C20: the pending watchdog flag is cleared (the watchdog petted) only by an
\* Idle tick, never by a tick of Pumping, LowBattery, Reporting, RespWait or
\* Error, which leave a pending flag pending unless they restart the device;
\* the flag is set only by the interrupt handler, which changes nothing else.
WatchdogPetOnlyInIdle ==
  [][/\ (watchdogFlag /\ ~watchdogFlag') =>
          \/ (state = IDLE_STATE /\ op' = "loop_IDLE")
          \/ Restarted
     /\ (state = IDLE_STATE /\ op' = "loop_IDLE") => ~watchdogFlag'
     /\ (~watchdogFlag /\ watchdogFlag') => op' = "watchdogISR"
     /\ op' = "watchdogISR" => (watchdogFlag' /\ UNCHANGED allButWatchdogFlag)
  ]_vars

\* a RespWait tick has just run with the flag pending, and left it pending
PendingThroughRespWait ==
  /\ op = "loop_RESP_WAIT" /\ watchdogFlag
  /\ state \in {RESP_WAIT_STATE, IDLE_STATE}

-----------------------------------------------------------------------------
(* Properties of the diagnostic notices *)

Notices(p) == Count(p, "State Transition")

\* C21: a state-transition notice is published only by a tick that finds
\* verbose mode enabled, the state different from the recorded previous state
\* and the state not Idle, and at most one per tick; the tick records the
\* state as the previous state, so that a further tick in the same state
\* publishes no second notice.
NoticeOnlyOnChange ==
  [][Notices(pubs') >= 1 =>
       /\ Notices(pubs') = 1
       /\ verboseMode /\ state # oldState /\ state # IDLE_STATE
       /\ op' \in RecoveryOps \cup {"loop_PUMPING", "loop_LOW_BATTERY",
                   "loop_REPORTING", "loop_RESP_WAIT", "loop_ERROR"}
       /\ (oldState' = state \/ Restarted)
  ]_vars

\* a RespWait tick has just published its notice and stays in RespWait
NoticedRespWait ==
  /\ op = "loop_RESP_WAIT" /\ Notices(pubs) = 1
  /\ verboseMode
  /\ state = RESP_WAIT_STATE /\ oldState = RESP_WAIT_STATE

-----------------------------------------------------------------------------
(* Properties of the sampling run *)

\* C22: a sampling run forces Reporting exactly when the alert bitmask it
\* computes differs from the previous one, or, with the pump requested on,
\* the mapped pump current differs from the previous reading by 2 A or more
\* (up or down); otherwise the Idle tick ends in the state its three tests
\* chose.
SamplingForcesReport ==
  [][SampledIdleTick =>
       LET changed == \/ alertValue' # alertValue
                      \/ /\ pumpingEnabled
                         /\ (pumpAmps' - pumpAmps >= 2 \/ pumpAmps - pumpAmps' >= 2)
       IN  IF changed THEN state' = REPORTING_STATE
           ELSE state' = IdleNextState(TimeHour(now) # currentHourlyPeriod,
                                       stateOfCharge <= lowBattLimit,
                                       pumpingEnabled \/ pumpControlPin)
  ]_vars

\* a sampling run of an open session has just read 2 A with the pump
\* requested on and the quiet alert inputs, and forced Reporting
ReportForcedAtTwoAmps ==
  /\ op = "loop_IDLE" /\ arg = <<1>>
  /\ state = REPORTING_STATE
  /\ pumpingEnabled /\ pumpAmps = 2 /\ alertValue = 4
  /\ SessionBit(fram) /\ openedAt < now

-----------------------------------------------------------------------------
(* Properties of the layout of the FRAM *)

\* the bytes of each field in the layout of FRAM::Addresses
FlagsField == {controlRegisterAddr}
ResetCountField == {resetCountAddr}
PumpingMinsField == dailyPumpingMinsAddr .. (pumpingStartAddr - 1)
PumpingStartField == pumpingStartAddr .. (lastHookResponseAddr - 1)
LastAckField == lastHookResponseAddr .. (lastHookResponseAddr + 3)

ChangedBytes == {a \in FramAddrs : fram'[a] # fram[a]}

\* the fields the step writes
WrittenFields ==
  IF SampledIdleTick /\ pumpingEnabled /\ ~SessionBit(fram)
    THEN FlagsField \cup PumpingStartField
  ELSE IF SampledIdleTick /\ ~pumpingEnabled /\ SessionBit(fram)
    THEN FlagsField \cup PumpingMinsField
  ELSE IF op' = "sendEvent_done" /\ arg' = <<1>>
    THEN FlagsField \cup PumpingMinsField
  ELSE IF op' = "resetCounts" /\ arg' = <<1>>
    THEN ResetCountField \cup PumpingMinsField
  ELSE IF op' \in {"setup", "PowerCycle", "ModemReset"} THEN ResetCountField
  ELSE IF op' = "UbidotsHandler" THEN LastAckField
  ELSE IF op' = "setVerboseMode" THEN FlagsField
  ELSE IF op' = "resetFRAM" THEN FramAddrs
  ELSE {}

\* C23: every write to the FRAM changes only the bytes of the field written
\* (flags: 1 byte at 1; resetCount: 1 byte at 2; dailyPumpingMins: 2 bytes at
\* 3; pumpingStart: 4 bytes at 5; lastHookResponse: 4 bytes at 9): setting or
\* clearing the session bit alters neither resetCount nor, on opening,
\* dailyPumpingMins, and zeroing a counter does not alter pumpingStart.
WritesStayInField ==
  [][ChangedBytes \subseteq WrittenFields]_vars

-----------------------------------------------------------------------------
(* Properties of the hourly report *)

-----------------------------------------------------------------------------
(* Properties of switching the pump off *)

\* the states of a telemetry send, of its acknowledgment wait and of its failure
ExchangeStates == {REPORTING_STATE, RESP_WAIT_STATE, ERROR_STATE}

\* C25: once the pump is requested off (by pumpControl or by the backup timer)
\* while its output is asserted, the output is de-asserted before the machine
\* enters Reporting, Response Wait or Error, unless the pump is requested on
\* again.
OffRequestBeforeReport ==
  [][(pumpControlPin /\ ~pumpingEnabled /\ state \notin ExchangeStates
        /\ state' \in ExchangeStates)
       => (~pumpControlPin' \/ pumpingEnabled')
  ]_vars

-----------------------------------------------------------------------------
(* Properties of the wake interrupt against petWatchdog() *)

\* C26: no wake interrupt is lost: an interrupt that arrives between the pulse
\* of petWatchdog() and its clearing of watchdogFlag is not discarded, the flag
\* still records it once petWatchdog() has returned, so that a pulse that starts
\* after the interrupt follows.
LateInterruptKept ==
  [][(pc = "petWatchdog" /\ op = "watchdogISR" /\ op' = "petWatchdog_done")
       => watchdogFlag'
  ]_vars

====
